---- MODULE Spec2Model ----
(***************************************************************************)
(* Model of planes.py (jgrahamc/aeronear): the stepper-motor position      *)
(* tracker, the LED ring, the start-up calibration and the persisted       *)
(* planes_position.py file.                                                *)
(*                                                                         *)
(* Real numbers are exact rationals scaled by Degrees: a quantity x steps  *)
(* is held as the integer x * Degrees, so that                             *)
(*   trak * steps_per_degree - position                                    *)
(* is (trak * revolution - position * Degrees) / Degrees.  Bearings are    *)
(* whole degrees, and the arithmetic on them is exact.                     *)
(*                                                                         *)
(* The coil sequence of motor_step (current_step, seq) drives the hardware *)
(* only and is left out; phys is the orientation of the motor in steps     *)
(* from the zero fixed by calibration.                                     *)
(***************************************************************************)
EXTENDS Integers

(* ---------------- program constants ---------------- *)

LED_COUNT == 24

revolution == 2038

Degrees == 360

CalibrationNudge == 4

(* ---------------- bounds of the model ---------------- *)

NumBearings == 8

NumInputs == 2

MaxRuns == 2

MaxNudges == 2

MaxPartial == 1

MaxPresses == 1

NumRingBearings == 72

(* N whole bearings spread evenly over the circle *)
Spread(N) == { (k * Degrees) \div N : k \in 0..(N - 1) }

(* the tracks fed to plane_track alone *)
Bearings == Spread(NumBearings)

(* the bearings and tracks fed to the whole program *)
Inputs == Spread(NumInputs)

(* the bearings fed to the LED ring alone *)
RingBearings == Spread(NumRingBearings)

VARIABLES pc, north, position, accumulated_error, strip,
          file, phys, i, nudges, fix, count, clockwise, moved, trak,
          bearing, loaded, runs

vars == << pc, north, position, accumulated_error, strip,
           file, phys, i, nudges, fix, count, clockwise, moved, trak,
           bearing, loaded, runs >>

(* ---------------- helpers ---------------- *)

Abs(x) == IF x < 0 THEN -x ELSE x

(* Python int() of the real x/Degrees: truncation toward zero *)
Trunc(x) == IF x >= 0 THEN x \div Degrees ELSE -((-x) \div Degrees)

AllOff == [c \in 0..(LED_COUNT - 1) |-> "off"]

(* ---------------- LED ring ---------------- *)

strip_clear == AllOff

(* index lit by spotted: (north+int(LED_COUNT*bearing/360)) % LED_COUNT *)
SpottedCellNoNorth(n, b) == ((LED_COUNT * b) \div Degrees) % LED_COUNT

SpottedCell(n, b) == (n + ((LED_COUNT * b) \div Degrees)) % LED_COUNT

SpottedStrip(n, b) == [strip_clear EXCEPT ![SpottedCell(n, b)] = "green"]

(* ---------------- stepper ---------------- *)

(* position after cnt calls of motor_step(cw) *)
motor_step_position(p, cnt, cw) == IF cw THEN (p + cnt) % revolution
                                         ELSE (p - cnt) % revolution

(* ---------------- plane_track ---------------- *)

(* d = trak * steps_per_degree - position, scaled by Degrees *)
TrackD(t, p) == t * revolution - p * Degrees

(* accumulated_error += (d - delta) *)
TrackErr(t, p, a) == a + (TrackD(t, p) - Trunc(TrackD(t, p)) * Degrees)

TrackFixStrict(t, p, a) == IF Abs(TrackErr(t, p, a)) > Degrees
                             THEN Trunc(TrackErr(t, p, a)) ELSE 0

(* fix = int(accumulated_error) when abs(accumulated_error) >= 1 *)
TrackFix(t, p, a) == IF Abs(TrackErr(t, p, a)) >= Degrees
                       THEN Trunc(TrackErr(t, p, a)) ELSE 0

(* accumulated_error after the call *)
TrackAcc(t, p, a) == TrackErr(t, p, a) - TrackFix(t, p, a) * Degrees

TrackDeltaFixSubtracted(t, p, a) == Trunc(TrackD(t, p)) - TrackFix(t, p, a)

(* signed delta before the shortest-path reduction *)
TrackDelta(t, p, a) == Trunc(TrackD(t, p)) + TrackFix(t, p, a)

TrackCountLongWay(t, p, a) == Abs(TrackDelta(t, p, a))

(* the count passed to plane_rotate *)
TrackCount(t, p, a) == IF 2 * Abs(TrackDelta(t, p, a)) > revolution
                         THEN revolution - Abs(TrackDelta(t, p, a))
                         ELSE Abs(TrackDelta(t, p, a))

TrackClockwiseNoFlip(t, p, a) == TrackDelta(t, p, a) > 0

(* the direction passed to plane_rotate *)
TrackClockwise(t, p, a) == IF 2 * Abs(TrackDelta(t, p, a)) > revolution
                             THEN ~(TrackDelta(t, p, a) > 0)
                             ELSE TrackDelta(t, p, a) > 0

(* ---------------- persistence ---------------- *)

SavePositionNorthTwice(n, p) == [valid |-> TRUE, north |-> n, position |-> n]

(* the content of planes_position.py written by save_position *)
SavePosition(n, p) == [valid |-> TRUE, north |-> n, position |-> p]

(* planes_position.py after open(..., 'w') and before writelines *)
TruncatedFile == [valid |-> FALSE, north |-> -1, position |-> 0]

(* planes_position.py of a device that was never calibrated *)
ShippedFile == [valid |-> TRUE, north |-> -1, position |-> 0]

CalibrateStripNextNoWrap(c) == c + 1

(* i = (i + 1) % LED_COUNT in calibrate_strip *)
CalibrateStripNext(c) == (c + 1) % LED_COUNT


(* ---------------- the process ---------------- *)

(* The state of a device that was never started: the shipped               *)
(* planes_position.py, no process running.                                 *)
NoProcess ==
    /\ north = -1 /\ position = 0
    /\ accumulated_error = 0 /\ i = 0 /\ nudges = 0
    /\ fix = 0 /\ count = 0 /\ clockwise = FALSE /\ moved = "none"
    /\ trak = -1 /\ bearing = -1

(* process exit: the memory of the process is gone *)
ProcessGone ==
    /\ north' = -1 /\ position' = 0
    /\ accumulated_error' = 0 /\ i' = 0 /\ nudges' = 0
    /\ fix' = 0 /\ count' = 0 /\ clockwise' = FALSE /\ moved' = "none"
    /\ trak' = -1 /\ bearing' = -1

Init ==
    /\ pc = "not_running"
    /\ NoProcess
    /\ strip = AllOff
    /\ file = ShippedFile /\ phys = 0
    /\ loaded = ShippedFile
    /\ runs = 0

(* `from planes_position import north, position`, then the module-level    *)
(* initialisers and strip_spin().  An empty or missing file raises          *)
(* ImportError and the process ends before anything else runs.             *)
Import ==
    /\ pc = "not_running"
    /\ loaded' = file
    /\ IF file.valid
         THEN /\ pc' = "start"
              /\ north' = file.north
              /\ position' = file.position
              /\ accumulated_error' = 0
              /\ strip' = strip_clear
              /\ i' = 0 /\ nudges' = 0
              /\ fix' = 0 /\ count' = 0 /\ clockwise' = FALSE
              /\ moved' = "none" /\ trak' = -1 /\ bearing' = -1
         ELSE /\ pc' = "import_error"
              /\ UNCHANGED << north, position, accumulated_error, strip, i,
                              nudges, fix, count, clockwise, moved, trak,
                              bearing >>
    /\ UNCHANGED << file, phys >>

(* if north == -1: calibrate_strip() up to its polling loop *)
StartCalibration ==
    /\ pc = "start"
    /\ north = -1
    /\ pc' = "calibrate_strip"
    /\ i' = 0
    /\ strip' = [strip_clear EXCEPT ![0] = "blue"]
    /\ UNCHANGED << north, position, accumulated_error, file, phys, nudges,
                    fix, count, clockwise, moved, trak, bearing, loaded,
                    runs >>

(* north != -1: the calibration block is skipped *)
SkipCalibration ==
    /\ pc = "start"
    /\ north # -1
    /\ pc' = "ready"
    /\ UNCHANGED << north, position, accumulated_error, strip, file, phys,
                    i, nudges, fix, count, clockwise, moved, trak, bearing,
                    loaded, runs >>

(* calibrate_strip: the button is HIGH at a poll, light the next LED *)
StripAdvance ==
    /\ pc = "calibrate_strip"
    /\ i' = CalibrateStripNext(i)
    /\ strip' = [[strip EXCEPT ![i] = "off"]
                    EXCEPT ![CalibrateStripNext(i)] = "blue"]
    /\ UNCHANGED << pc, north, position, accumulated_error, file, phys,
                    nudges, fix, count, clockwise, moved, trak, bearing,
                    loaded, runs >>

(* calibrate_strip: five seconds without a press; north = i; then          *)
(* calibrate_plane() waits for the button                                  *)
StripConfirm ==
    /\ pc = "calibrate_strip"
    /\ strip' = [strip EXCEPT ![i] = "red"]
    /\ north' = i
    /\ i' = 0
    /\ pc' = "calibrate_plane"
    /\ UNCHANGED << position, accumulated_error, file, phys, nudges, fix,
                    count, clockwise, moved, trak, bearing, loaded, runs >>

(* calibrate_plane: the button is HIGH at a poll:                          *)
(* plane_rotate(0.01, 4, True)                                             *)
PlaneNudge ==
    /\ pc = "calibrate_plane"
    /\ nudges < MaxNudges
    /\ nudges' = nudges + 1
    /\ position' = motor_step_position(position, CalibrationNudge, TRUE)
    /\ phys' = motor_step_position(phys, CalibrationNudge, TRUE)
    /\ UNCHANGED << pc, north, accumulated_error, strip, file, i, fix,
                    count, clockwise, moved, trak, bearing, loaded, runs >>

(* calibrate_plane returns; position = 0; save_position().  The orientation *)
(* the operator confirmed becomes the zero the physical angle is counted   *)
(* from.                                                                   *)
PlaneConfirm ==
    /\ pc = "calibrate_plane"
    /\ position' = 0
    /\ phys' = 0
    /\ file' = SavePosition(north, 0)
    /\ pc' = "ready"
    /\ UNCHANGED << north, accumulated_error, strip, i, nudges, fix, count,
                    clockwise, moved, trak, bearing, loaded, runs >>

(* strip_clear(); strip.show(); screen_start(); blank(); enter while True *)
EnterLoop ==
    /\ pc = "ready"
    /\ pc' = "loop"
    /\ strip' = strip_clear
    /\ nudges' = 0
    /\ UNCHANGED << north, position, accumulated_error, file, phys, i, fix,
                    count, clockwise, moved, trak, bearing, loaded, runs >>

(* one pass of the loop that finds no aircraft: blank() *)
Blank ==
    /\ pc = "loop"
    /\ strip' = strip_clear
    /\ UNCHANGED << pc, north, position, accumulated_error, file, phys, i,
                    nudges, fix, count, clockwise, moved, trak, bearing,
                    loaded, runs >>

(* one pass of the loop that finds an aircraft at bearing b flying track t: *)
(* spotted(): light the LED, plane_track(t), save_position()               *)
Spotted(b, t) ==
    /\ pc = "loop"
    /\ bearing' = b
    /\ trak' = t
    /\ strip' = SpottedStrip(north, b)
    /\ accumulated_error' = TrackAcc(t, position, accumulated_error)
    /\ fix' = TrackFix(t, position, accumulated_error)
    /\ count' = TrackCount(t, position, accumulated_error)
    /\ clockwise' = TrackClockwise(t, position, accumulated_error)
    /\ moved' = IF t # trak THEN "none"
                ELSE IF count' = 0 THEN moved
                ELSE IF clockwise' THEN "cw" ELSE "ccw"
    /\ position' = motor_step_position(position, count', clockwise')
    /\ phys' = motor_step_position(phys, count', clockwise')
    /\ file' = SavePosition(north, position')
    /\ UNCHANGED << pc, north, i, nudges, loaded, runs >>

(* the process ends (killed, power cut, uncaught exception of the loop)    *)
(* at a point where no move and no write is in progress                    *)
Exit ==
    /\ pc \in {"start", "calibrate_strip", "calibrate_plane", "ready", "loop"}
    /\ pc' = "not_running"
    /\ ProcessGone
    /\ UNCHANGED << strip, file, phys, loaded, runs >>

(* the process ends inside spotted(b, t), after n >= 1 of the steps of     *)
(* plane_rotate and before save_position                                   *)
ExitDuringMove(b, t, n) ==
    /\ pc = "loop"
    /\ n <= TrackCount(t, position, accumulated_error)
    /\ pc' = "not_running"
    /\ strip' = SpottedStrip(north, b)
    /\ phys' = motor_step_position(phys, n,
                   TrackClockwise(t, position, accumulated_error))
    /\ ProcessGone
    /\ UNCHANGED << file, loaded, runs >>

(* the process ends inside save_position, after open(..., 'w') truncated   *)
(* planes_position.py and before writelines                                *)
ExitDuringSave(b, t) ==
    /\ pc = "loop"
    /\ pc' = "not_running"
    /\ strip' = SpottedStrip(north, b)
    /\ phys' = motor_step_position(phys,
                   TrackCount(t, position, accumulated_error),
                   TrackClockwise(t, position, accumulated_error))
    /\ file' = TruncatedFile
    /\ ProcessGone
    /\ UNCHANGED << loaded, runs >>

Cycle ==
    \E b \in Inputs : \E t \in Inputs : Spotted(b, t)

Interrupted ==
    \E b \in Inputs : \E t \in Inputs :
        \/ \E n \in 1..MaxPartial : ExitDuringMove(b, t, n)
        \/ ExitDuringSave(b, t)

(* the process is started at most MaxRuns times *)
ImportBounded ==
    /\ runs < MaxRuns
    /\ runs' = runs + 1
    /\ Import

(* the process is started any number of times *)
ImportAgain ==
    /\ UNCHANGED runs
    /\ Import

(* the operator holds the button for at most MaxPresses polls *)
StripAdvanceBounded ==
    /\ i < MaxPresses
    /\ StripAdvance

(* the whole program, with the interruptions of the process *)
Next ==
    \/ ImportBounded
    \/ StartCalibration
    \/ SkipCalibration
    \/ StripAdvanceBounded
    \/ StripConfirm
    \/ PlaneNudge
    \/ PlaneConfirm
    \/ EnterLoop
    \/ Blank
    \/ Cycle
    \/ Exit
    \/ Interrupted

Spec == Init /\ [][Next]_vars

(* start-up and tracking, the process ending only between two handlers *)
StartupNext ==
    \/ ImportBounded
    \/ StartCalibration
    \/ SkipCalibration
    \/ StripAdvance
    \/ StripConfirm
    \/ PlaneNudge
    \/ PlaneConfirm
    \/ EnterLoop
    \/ Blank
    \/ Cycle
    \/ Exit

SpecStartup == Init /\ [][StartupNext]_vars

(* a device calibrated in this run, in its loop at position p with north n *)
(* and accumulated error a                                                 *)
Running(n, p, a) ==
    /\ pc = "loop"
    /\ north = n /\ position = p /\ phys = p
    /\ accumulated_error = a /\ i = 0 /\ nudges = 0
    /\ fix = 0 /\ count = 0 /\ clockwise = FALSE /\ moved = "none"
    /\ trak = -1 /\ bearing = -1
    /\ strip = AllOff
    /\ file = SavePosition(n, p) /\ loaded = ShippedFile
    /\ runs = 1

(* plane_track from every position of a process that has not tracked yet:  *)
(* the loop of a running device fed tracks from Bearings                   *)
TrackInit == \E p \in 0..(revolution - 1) : Running(0, p, 0)

TrackNext == \E t \in Bearings : Spotted(t, t)

SpecTrack == TrackInit /\ [][TrackNext]_vars

(* the same from every position with no accumulated error and with the     *)
(* largest one of either sign a whole-degree track can leave (179/180)     *)
TrackAnyInit ==
    \E p \in 0..(revolution - 1) :
        \E a \in {-(Degrees - 2), 0, Degrees - 2} : Running(0, p, a)

SpecTrackAny == TrackAnyInit /\ [][TrackNext]_vars

(* the LED of spotted for every north *)
RingInit == \E n \in 0..(LED_COUNT - 1) : Running(n, 0, 0)

RingNext == \E b \in RingBearings : Spotted(b, 0)

SpecRing == RingInit /\ [][RingNext]_vars

(* ---------------- the tracker's properties (SpecTrack) ---------------- *)

(* one turn of the motor, in units of 1/Degrees of a step *)
Turn == revolution * Degrees

(* clockwise distance from position p to the target of track t, scaled *)
CwDist(t, p) == (t * revolution - p * Degrees) % Turn

(* distance round the circle from position p to the target of track t *)
CircDist(t, p) == IF 2 * CwDist(t, p) <= Turn THEN CwDist(t, p)
                                               ELSE Turn - CwDist(t, p)

(* C1: the number of single steps plane_track passes to plane_rotate is    *)
(* between 0 and revolution/2: never more than half a revolution per call. *)
C1_HalfRevolution == count >= 0 /\ 2 * count <= revolution

(* a call that turned exactly half a revolution, and one whose direction   *)
(* was reversed to go the short way through zero                           *)
C1_Witness ==
    /\ trak # -1
    /\ \/ 2 * count = revolution
       \/ count > 0 /\ ~clockwise /\ position + count >= revolution

(* C10: accumulated_error stays strictly inside (-1, 1) after every call.  *)
C10_ErrorBound == Abs(accumulated_error) < Degrees

(* a call in which the error reached a whole step and was moved into delta *)
C10_Witness == trak # -1 /\ fix # 0 /\ accumulated_error # 0

(* C2: after every call the position is at most one step away from         *)
(* trak * steps_per_degree, compared modulo revolution.                    *)
C2_WithinOneStep == trak # -1 => CircDist(trak, position) <= Degrees

(* a call that applied a carried step and still sits off the target *)
C2_Witness == trak # -1 /\ fix # 0 /\ CircDist(trak, position) > 0

(* C3: plane_track called again with the same track leaves the position    *)
(* within one step of the target, issues zero or one step, and never steps *)
(* back against the direction of an earlier step of these calls.           *)
C3_Idempotent ==
    [][ (trak # -1 /\ trak' = trak) =>
           /\ CircDist(trak', position') <= Degrees
           /\ count' <= 1
           /\ (count' > 0 /\ moved # "none") => moved' = moved ]_vars

(* C4 as stated: the direction is clockwise whenever the shortest way from *)
(* the position to the target is clockwise, and counter-clockwise whenever *)
(* it is counter-clockwise (a target exactly opposite may go either way).  *)
C4_Direction ==
    [][ /\ (0 < CwDist(trak', position) /\ 2 * CwDist(trak', position) < Turn)
              => clockwise'
        /\ (2 * CwDist(trak', position) > Turn) => ~clockwise' ]_vars

(* C4 amended: the same, for the calls that issue at least one step and    *)
(* fewer than revolution/2 steps.                                          *)
C4_DirectionOfMoves ==
    [][ (count' > 0 /\ 2 * count' < revolution) =>
           /\ (0 < CwDist(trak', position)
                 /\ 2 * CwDist(trak', position) < Turn) => clockwise'
           /\ (2 * CwDist(trak', position) > Turn) => ~clockwise' ]_vars

(* a counter-clockwise move of more than one step that went the short way  *)
(* through zero after the direction was reversed                           *)
C4_Witness ==
    /\ trak # -1 /\ count > 1 /\ 2 * count < revolution
    /\ ~clockwise /\ position + count >= revolution

(* ---------------- persistence and start-up (Spec, SpecStartup) -------- *)

(* C5: at every start of the process with a calibrated record, the         *)
(* position loaded from planes_position.py is the orientation the motor    *)
(* is physically in, wherever the previous process ended.                  *)
C5_ResumablePosition == (pc = "start" /\ north # -1) => position = phys

(* C6: whenever the loop is about to read its next input, the file holds   *)
(* the north and the position the process has in memory.                   *)
C6_SavedAfterMove ==
    pc = "loop" =>
        /\ file.valid
        /\ file.north = north
        /\ file.position = position

(* the loop after a move that changed the position, the file following it *)
C6_Witness ==
    /\ pc = "loop" /\ trak # -1 /\ count > 0
    /\ position # 0 /\ north # 0
    /\ file.position = position

(* C7: a missing or malformed planes_position.py never makes start-up      *)
(* fail: the process comes up uncalibrated (north = -1).                   *)
C7_StartupNeverFails ==
    (pc # "not_running" /\ ~loaded.valid) =>
        /\ pc # "import_error"
        /\ pc = "start" => north = -1

(* C8: calibration runs exactly when the loaded north is -1 and is over    *)
(* before the loop starts; it leaves a north in 0..LED_COUNT-1 and         *)
(* position 0, whatever calibrate_plane rotated, and these are what the    *)
(* file holds; a loaded north other than -1 skips calibration and keeps    *)
(* the loaded north and position.                                          *)
C8_Calibration ==
    /\ pc \in {"calibrate_strip", "calibrate_plane"} =>
          loaded.north = -1 /\ trak = -1
    /\ pc = "calibrate_strip" => i \in 0..(LED_COUNT - 1)
    /\ pc = "ready" =>
          /\ trak = -1
          /\ IF loaded.north = -1
               THEN /\ north \in 0..(LED_COUNT - 1)
                    /\ strip[north] = "red"
                    /\ position = 0
                    /\ file.valid /\ file.north = north /\ file.position = 0
               ELSE /\ north = loaded.north
                    /\ position = loaded.position
                    /\ nudges = 0
                    /\ strip = AllOff
    /\ pc = "loop" => north \in 0..(LED_COUNT - 1)

(* calibration confirmed on the last LED after calibrate_plane rotated *)
C8_Witness ==
    /\ pc = "ready" /\ loaded.north = -1
    /\ nudges > 0 /\ north = LED_COUNT - 1
    /\ position = 0 /\ file.north = north

(* ---------------- the LED ring (SpecRing) ---------------- *)

(* round(LED_COUNT * b / 360) for a whole bearing b (no whole bearing is   *)
(* half-way between two LEDs)                                              *)
RoundCell(b) == (2 * LED_COUNT * b + Degrees) \div (2 * Degrees)

====
